---- MODULE Spec2Model ----
(***************************************************************************)
(* Model of the donation text-to-speech queue (src/tts_queue.py).          *)
(*                                                                         *)
(*  - DatabaseManager: the queue_items table and the singleton queue_stats *)
(*    row of the SQLite file.  Every method opens its own connection; a    *)
(*    SELECT runs in autocommit mode (its own read snapshot) and the first *)
(*    UPDATE/INSERT opens a transaction that the "with" block commits on   *)
(*    normal exit and rolls back on an exception.  A method is therefore   *)
(*    one step per SELECT and one step per write transaction.              *)
(*  - TTSQueueSystem: the Flask handlers run on concurrent request         *)
(*    threads; process_next_item runs under processing_lock.               *)
(*  - TTSManager.generate_and_play_tts: the provider fallback loop, as an  *)
(*    operator over the outcome of each provider and of the playback.      *)
(*                                                                         *)
(* Amounts are integers in hundredths of the currency unit (the REAL column*)
(* without rounding error).  Time is a clock of sub-second ticks that      *)
(* never runs backwards: a reading returns an instant not before any       *)
(* instant already written.                                                *)
(* datetime.now() reads the clock, CURRENT_TIMESTAMP and the 19-character  *)
(* prefix of an ISO instant read it truncated to the second.               *)
(***************************************************************************)
EXTENDS Integers, Sequences, FiniteSets, TLC

\* ------------------------------------------------------------------ bounds
MaxItems == 2

MaxClock == 2

TicksPerSec == 2

MaxResets == 2

MaxRepairs == 1

MaxFail == 1

MaxCalls == 1

MaxGenCalls == 3

MaxMarks == 2

MaxRecords == 3

Amounts == {0, 2}

Threads == {"t1", "t2"}

NoThread == "none"

\* ------------------------------------------------------- program constants
\* abs(actual - stats) > 0.01, in hundredths
AMOUNT_TOLERANCE == 1

\* substr(..., 19) keeps an instant to the second
ResetTimeKey(instant) == instant \div TicksPerSec

\* CURRENT_TIMESTAMP column default: the clock to the second
CurrentTimestamp(c) == c \div TicksPerSec

\* "Keep only last 100 generation times"
GENERATION_TIMES_KEPT == 100

\* LIMIT 10 of get_reset_history
HISTORY_LIMIT == 10

VARIABLES
    items,      \* queue_items rows, indexed by id (AUTOINCREMENT from 1)
    agg,        \* queue_stats row id = 1: [count, amount]
    lock,       \* holder of processing_lock, or NoThread
    pc,         \* per request thread: position in its handler
    loc,        \* per request thread: local variables of its handler
    hist,       \* per item: committed marks, successful syntheses, failed marks
    resetLog,   \* one entry per committed reset: [at, n, amount] newly tagged
    repairs,    \* number of committed manual repairs
    providers,  \* TTSManager.providers: name -> one of ProviderStates
    call,       \* the last generate_and_play_tts call, as observed
    ttsStats,   \* TTSManager.stats
    user_voices, \* TTSManager.user_voices: username -> [provider, voice]
    voice,      \* the last get_voice_settings call, as observed
    cache,      \* the files in the cache directory of a provider, by name
    gen,        \* the last generate_speech call of that provider, as observed
    generation_times, \* TTSManager.stats['generation_times'], oldest first
    ret         \* the last request served alone, as its caller observed it

dbVars == <<items, agg>>

ttsVars == <<providers, call, ttsStats, user_voices, voice, cache, gen,
            generation_times>>

vars == <<items, agg, lock, pc, loc, hist, resetLog, repairs,
          providers, call, ttsStats, user_voices, voice, cache, gen,
          generation_times, ret>>

\* ------------------------------------------------------------ queue_items
RECURSIVE SumAmount(_, _)
SumAmount(its, S) ==
    IF S = {} THEN 0
    ELSE LET i == CHOOSE x \in S : TRUE
         IN its[i].amount + SumAmount(its, S \ {i})

\* SELECT COUNT(*), COALESCE(SUM(amount), 0) ... WHERE <S>
CountSum(its, S) == [count |-> Cardinality(S), amount |-> SumAmount(its, S)]

ZeroCS == [count |-> 0, amount |-> 0]

\* timestamp LIKE '%[RESET:%'
HasResetMarker(it) == Len(it.timestamp) > 0

PendingIds(its) == {i \in DOMAIN its : ~its[i].processed}

ProcessedIds(its) == {i \in DOMAIN its : its[i].processed}

LiveProcessedIds(its) ==
    {i \in DOMAIN its : its[i].processed /\ ~HasResetMarker(its[i])}

NewItem_Processed(username, amount, c) ==
    [username |-> username, amount |-> amount, processed |-> TRUE,
     timestamp |-> <<>>, created_at |-> CurrentTimestamp(c)]

\* INSERT INTO queue_items (username, message, amount, timestamp)
NewItem(username, amount, c) ==
    [username |-> username, amount |-> amount, processed |-> FALSE,
     timestamp |-> <<>>, created_at |-> CurrentTimestamp(c)]

\* WHERE processed = FALSE ORDER BY created_at ASC LIMIT 1: the query names
\* no second sort key, so any row of the earliest second may be the one row.
NextItemCandidates(its) ==
    {i \in PendingIds(its) :
        \A j \in PendingIds(its) : its[i].created_at <= its[j].created_at}


\* ----------------------------------------------------------- transactions
\* "with sqlite3.connect(...) as conn": the statements run on the
\* connection's private copy; leaving the block normally commits the last
\* copy, leaving it by an exception rolls back to the state before the first
\* statement.  after[k] is the copy after statement k; failAt = 0 is a run
\* without failure, failAt = k a failure raised by statement k (after
\* statements 1..k-1), failAt = Len(after) + 1 a failure of the commit.
WithConnection_Autocommit(before, after, failAt) ==
    IF failAt = 0 THEN after[Len(after)]
    ELSE IF failAt = 1 THEN before
    ELSE after[failAt - 1]

WithConnection(before, after, failAt) ==
    IF failAt = 0 THEN after[Len(after)] ELSE before

FailPoints(n) == 1..(n + 1)

Db(its, a) == [items |-> its, agg |-> a]

\* UPDATE queue_items SET processed = TRUE WHERE id = ?
SetProcessed(d, id) ==
    Db([d.items EXCEPT ![id].processed = TRUE], d.agg)

\* UPDATE queue_stats SET total_processed = total_processed + 1,
\*                        total_amount = total_amount + ?
AddToTotals(d, amount) ==
    Db(d.items, [count |-> d.agg.count + 1, amount |-> d.agg.amount + amount])

\* UPDATE queue_stats SET total_processed = ?, total_amount = ?
SetTotals(d, cs) == Db(d.items, [count |-> cs.count, amount |-> cs.amount])

mark_processed_NoLookup(d, item_id, failAt) ==
    LET known == item_id \in DOMAIN d.items
        item_amount == IF known THEN d.items[item_id].amount ELSE 0
        s1 == IF known THEN SetProcessed(d, item_id) ELSE d
        s2 == AddToTotals(s1, item_amount)
    IN [db |-> WithConnection(d, <<s1, s2>>, failAt), ok |-> failAt = 0]

\* DatabaseManager.mark_processed: [db, ok]
mark_processed(d, item_id, failAt) ==
    IF item_id \notin DOMAIN d.items
    THEN [db |-> d, ok |-> FALSE]
    ELSE LET item_amount == d.items[item_id].amount
             s1 == SetProcessed(d, item_id)
             s2 == AddToTotals(s1, item_amount)
         IN [db |-> WithConnection(d, <<s1, s2>>, failAt), ok |-> failAt = 0]

AppendResetMarker_All(d, reset_timestamp) ==
    Db([i \in DOMAIN d.items |->
          [d.items[i] EXCEPT !.timestamp = Append(@, reset_timestamp)]],
       d.agg)

\* UPDATE queue_items SET timestamp = timestamp || ' [RESET:' || ? || ']'
\*  WHERE timestamp NOT LIKE '%[RESET:%'
AppendResetMarker(d, reset_timestamp) ==
    Db([i \in DOMAIN d.items |->
          IF HasResetMarker(d.items[i]) THEN d.items[i]
          ELSE [d.items[i] EXCEPT
                  !.timestamp = Append(@, reset_timestamp)]],
       d.agg)

ArchivePending_Flip(d) ==
    Db([i \in DOMAIN d.items |->
            [d.items[i] EXCEPT !.processed = ~d.items[i].processed]],
       d.agg)

\* UPDATE queue_items SET processed = TRUE WHERE processed = FALSE
ArchivePending(d) ==
    Db([i \in DOMAIN d.items |-> [d.items[i] EXCEPT !.processed = TRUE]],
       d.agg)

ZeroTotals_Keep(d) == d

\* UPDATE queue_stats SET total_processed = 0, total_amount = 0.0
ZeroTotals(d) == SetTotals(d, ZeroCS)

reset_queue_counter_StepByStep(d, reset_timestamp, failAt) ==
    LET s1 == AppendResetMarker(d, reset_timestamp)
        s2 == ArchivePending(s1)
        s3 == ZeroTotals(s2)
    IN [db |-> WithConnection_Autocommit(d, <<s1, s2, s3>>, failAt),
        ok |-> failAt = 0]

\* DatabaseManager.reset_queue_counter, its write transaction: [db, ok]
reset_queue_counter(d, reset_timestamp, failAt) ==
    LET s1 == AppendResetMarker(d, reset_timestamp)
        s2 == ArchivePending(s1)
        s3 == ZeroTotals(s2)
    IN [db |-> WithConnection(d, <<s1, s2, s3>>, failAt), ok |-> failAt = 0]

\* DatabaseManager.repair_stats_table, its write transaction: [db, ok]
repair_stats_table(d, actual_totals, failAt) ==
    [db |-> WithConnection(d, <<SetTotals(d, actual_totals)>>, failAt),
     ok |-> failAt = 0]

\* a username is a sequence of characters (a word counts as one); None is
\* what data.get returns for a JSON null
NoneUsername == <<"None">>

\* data.get('username', 'Anonymous') when the body has no such key
DefaultUsername == <<"Anonymous">>

\* DatabaseManager.add_to_queue: [db, ok]; the column username is
\* TEXT NOT NULL, so the INSERT of None raises
add_to_queue(d, username, amount, c, failAt) ==
    IF username = NoneUsername
    THEN [db |-> d, ok |-> FALSE]
    ELSE [db |-> WithConnection(d,
                    <<Db(Append(d.items, NewItem(username, amount, c)),
                         d.agg)>>, failAt),
          ok |-> failAt = 0]

\* ------------------------------------------------- get_queue_stats pieces
\* SELECT COUNT(*), SUM(amount) WHERE processed = FALSE
PendingStats(its) == CountSum(its, PendingIds(its))

ActualProcessed_IncludeArchived(its) == CountSum(its, ProcessedIds(its))

\* SELECT COUNT(*), SUM(amount) WHERE processed = TRUE
\*   AND timestamp NOT LIKE '%[RESET:%'
ActualProcessed(its) == CountSum(its, LiveProcessedIds(its))

AllProcessed_LiveOnly(its) == CountSum(its, LiveProcessedIds(its))

\* SELECT COUNT(*), SUM(amount) WHERE processed = TRUE
AllProcessed(its) == CountSum(its, ProcessedIds(its))

Abs(x) == IF x < 0 THEN -x ELSE x

\* the stats table is out of sync with the rows
OutOfSync(stats, actual) ==
    \/ actual.count # stats.count
    \/ Abs(actual.amount - stats.amount) > AMOUNT_TOLERANCE

\* the auto-repair condition, inside the out-of-sync branch
ShouldAutoRepair(stats, actual) ==
    /\ OutOfSync(stats, actual)
    /\ (stats.count < actual.count \/ stats.amount < actual.amount)

\* the dictionary get_queue_stats returns
StatsResult(pending, processed) ==
    [total_in_queue |-> pending.count,
     total_amount_pending |-> pending.amount,
     total_processed |-> processed.count,
     total_amount_processed |-> processed.amount]

\* the except branch of get_queue_stats
StatsOnError == StatsResult(ZeroCS, ZeroCS)

\* get_queue_stats run without interleaving and without failure: [db, out]
get_queue_stats(d) ==
    LET pending == PendingStats(d.items)
        stats == d.agg
        actual == ActualProcessed(d.items)
    IN IF ShouldAutoRepair(stats, actual)
       THEN [db |-> SetTotals(d, actual), out |-> StatsResult(pending, actual)]
       ELSE [db |-> d, out |-> StatsResult(pending, stats)]


\* ------------------------------------------------------------- TTSManager
\* self.fallback_order
fallback_order ==
    <<"edge_tts", "azure_tts", "elevenlabs", "polly", "coqui_tts", "gtts">>

ProviderNames == {fallback_order[k] : k \in DOMAIN fallback_order}

\* a name of self.providers: "absent" (its constructor raised), "disabled"
\* (enabled is False), "enabled" (enabled is True), "unavailable" (enabled
\* is True and available is False: the credentials are missing)
ProviderStates == {"absent", "disabled", "enabled", "unavailable"}

\* the providers whose constructor looks for an api key or access keys
CredentialProviders == {"azure_tts", "elevenlabs", "polly"}

\* TTSProvider.__init__ and the subclass constructors: enabled is the
\* configuration's 'enabled', available is bool(credentials)
provider_init(name, enabled_flag, has_credentials) ==
    IF ~enabled_flag THEN "disabled"
    ELSE IF name \in CredentialProviders /\ ~has_credentials
    THEN "unavailable"
    ELSE "enabled"

\* provider.enabled
provider_enabled(state) == state \in {"enabled", "unavailable"}

\* what generate_speech of a provider in this state does: one whose
\* available is False returns None at once
Answer(state, out) == IF state = "unavailable" THEN "none" ELSE out

\* what provider.generate_speech does when called: raises, returns None,
\* returns a path at which no file exists, returns the path of a real file
Outcomes == {"raise", "none", "missing", "file"}

NoProvider == "None"

NoFile == [path |-> "None", exists |-> FALSE]

providers_to_try_Dup(preferred_provider) ==
    <<preferred_provider>> \o fallback_order

\* [preferred_provider] + [p for p in self.fallback_order if p != preferred]
providers_to_try(preferred_provider) ==
    <<preferred_provider>> \o
    SelectSeq(fallback_order, LAMBDA p : p # preferred_provider)

RECURSIVE TryProviders_NoBreak(_, _, _, _, _)
TryProviders_NoBreak(try, k, provs, outs, st) ==
    IF k > Len(try) THEN st
    ELSE LET name == try[k] IN
         IF name \notin DOMAIN provs \/ ~provider_enabled(provs[name])
         THEN TryProviders_NoBreak(try, k + 1, provs, outs, st)
         ELSE LET tried == [st EXCEPT !.invoked = Append(@, name)]
                  out == Answer(provs[name], outs[name]) IN
              CASE out = "raise" ->
                     TryProviders_NoBreak(try, k + 1, provs, outs, tried)
                [] out = "none" ->
                     TryProviders_NoBreak(try, k + 1, provs, outs,
                                  [tried EXCEPT !.audio_file = NoFile])
                [] out = "missing" ->
                     TryProviders_NoBreak(try, k + 1, provs, outs,
                        [tried EXCEPT !.audio_file =
                                         [path |-> name, exists |-> FALSE]])
                [] OTHER ->
                     TryProviders_NoBreak(try, k + 1, provs, outs,
                        [tried EXCEPT
                           !.audio_file = [path |-> name, exists |-> TRUE],
                           !.used_provider = name])

RECURSIVE TryProviders_Abort(_, _, _, _, _)
TryProviders_Abort(try, k, provs, outs, st) ==
    IF k > Len(try) THEN st
    ELSE LET name == try[k] IN
         IF name \notin DOMAIN provs \/ ~provider_enabled(provs[name])
         THEN TryProviders_Abort(try, k + 1, provs, outs, st)
         ELSE LET tried == [st EXCEPT !.invoked = Append(@, name)]
                  out == Answer(provs[name], outs[name]) IN
              CASE out = "raise" -> [tried EXCEPT !.audio_file = NoFile]
                [] out = "none" ->
                     TryProviders_Abort(try, k + 1, provs, outs,
                                  [tried EXCEPT !.audio_file = NoFile])
                [] out = "missing" ->
                     TryProviders_Abort(try, k + 1, provs, outs,
                        [tried EXCEPT !.audio_file =
                                         [path |-> name, exists |-> FALSE]])
                [] OTHER ->
                     [tried EXCEPT
                        !.audio_file = [path |-> name, exists |-> TRUE],
                        !.used_provider = name]

\* the for loop over providers_to_try, from position k on;
\* st = [audio_file, used_provider, invoked]
RECURSIVE TryProviders(_, _, _, _, _)
TryProviders(try, k, provs, outs, st) ==
    IF k > Len(try) THEN st
    ELSE LET name == try[k] IN
         IF name \notin DOMAIN provs \/ provs[name] = "absent"
         THEN TryProviders(try, k + 1, provs, outs, st)
         ELSE IF ~provider_enabled(provs[name])
         THEN TryProviders(try, k + 1, provs, outs, st)
         ELSE LET tried == [st EXCEPT !.invoked = Append(@, name)]
                  out == Answer(provs[name], outs[name]) IN
              CASE out = "raise" ->
                     TryProviders(try, k + 1, provs, outs, tried)
                [] out = "none" ->
                     TryProviders(try, k + 1, provs, outs,
                                  [tried EXCEPT !.audio_file = NoFile])
                [] out = "missing" ->
                     TryProviders(try, k + 1, provs, outs,
                        [tried EXCEPT !.audio_file =
                                         [path |-> name, exists |-> FALSE]])
                [] OTHER ->
                     [tried EXCEPT
                        !.audio_file = [path |-> name, exists |-> TRUE],
                        !.used_provider = name]

play_audio_Always(audio_file, deviceOk) == TRUE

\* TTSManager.play_audio: loading a file that does not exist raises inside
\* the try block, as does a failing audio device
play_audio(audio_file, deviceOk) == audio_file.exists /\ deviceOk

InitTtsStats ==
    [total_generated |-> 0, cache_hits |-> 0, generation_times |-> 0,
     provider_usage |-> [p \in ProviderNames \cup {NoProvider} |-> 0]]

record_generation_time_PopLast(times, generation_time) ==
    LET appended == Append(times, generation_time)
    IN IF Len(appended) > GENERATION_TIMES_KEPT
       THEN SubSeq(appended, 1, GENERATION_TIMES_KEPT) ELSE appended

\* self.stats['generation_times'].append(generation_time), then pop(0) when
\* the list has more than 100 entries
record_generation_time(times, generation_time) ==
    LET appended == Append(times, generation_time)
    IN IF Len(appended) > GENERATION_TIMES_KEPT
       THEN Tail(appended) ELSE appended

\* the statistics update after playback (generation_times by its length)
UpdateStats(stats, used_provider) ==
    [total_generated |-> stats.total_generated + 1,
     cache_hits |-> stats.cache_hits,
     generation_times |->
        IF stats.generation_times + 1 > GENERATION_TIMES_KEPT
        THEN stats.generation_times ELSE stats.generation_times + 1,
     provider_usage |->
        [stats.provider_usage EXCEPT ![used_provider] = @ + 1]]

\* TTSManager.generate_and_play_tts:
\* [result, used_provider, invoked, audio_file, played, stats]
generate_and_play_tts(preferred_provider, provs, outs, deviceOk, stats) ==
    LET loop == TryProviders(providers_to_try(preferred_provider), 1,
                             provs, outs,
                             [audio_file |-> NoFile,
                              used_provider |-> NoProvider,
                              invoked |-> <<>>])
    IN IF loop.audio_file = NoFile
       THEN [result |-> FALSE, used_provider |-> loop.used_provider,
             invoked |-> loop.invoked, audio_file |-> loop.audio_file,
             played |-> FALSE, stats |-> stats]
       ELSE [result |-> play_audio(loop.audio_file, deviceOk),
             used_provider |-> loop.used_provider,
             invoked |-> loop.invoked, audio_file |-> loop.audio_file,
             played |-> TRUE,
             stats |-> UpdateStats(stats, loop.used_provider)]

\* what the providers can answer; one that is not enabled is never asked,
\* and one without credentials has no answer of its own
ProviderAnswers(provs) ==
    LET asked == {p \in ProviderNames : provs[p] = "enabled"} IN
    {[p \in ProviderNames |-> IF p \in asked THEN answer[p] ELSE "none"] :
        answer \in [asked -> Outcomes]}

Tier_Above(amount) ==
    IF amount > 10000 THEN "vip"
    ELSE IF amount > 2500 THEN "premium"
    ELSE "default"

\* tier thresholds of get_voice_settings, in hundredths
Tier(amount) ==
    IF amount >= 10000 THEN "vip"
    ELSE IF amount >= 2500 THEN "premium"
    ELSE "default"

\* tier_settings[tier]['provider']
TierProvider(tier) ==
    CASE tier = "vip" -> "elevenlabs"
      [] tier = "premium" -> "azure_tts"
      [] OTHER -> "edge_tts"

\* self.tier_settings
tier_settings ==
    [default |-> [provider |-> "edge_tts", voice |-> "en-US-AriaNeural"],
     vip |-> [provider |-> "elevenlabs", voice |-> "EXAVITQu4vr4xnSDxMaL"],
     premium |-> [provider |-> "azure_tts", voice |-> "en-US-JennyNeural"]]

\* user_voices of a configuration that names none
NoUserVoices == [u \in {} |-> tier_settings["default"]]

\* TTSManager.get_voice_settings
get_voice_settings(uv, username, amount) ==
    IF username \in DOMAIN uv THEN uv[username]
    ELSE tier_settings[Tier(amount)]

\* TTSManager.set_user_voice: self.user_voices[username] = {...}
set_user_voice(uv, username, provider, v) ==
    [u \in DOMAIN uv \cup {username} |->
        IF u = username THEN [provider |-> provider, voice |-> v]
        ELSE uv[u]]

\* no get_voice_settings call made yet
NoVoice ==
    [username |-> "", amount |-> 0, settings |-> tier_settings["default"],
     asked |-> FALSE]

\* the providers as the example configuration enables them
ExampleProviders ==
    [p \in ProviderNames |->
        IF p \in {"edge_tts", "gtts"} THEN "enabled" ELSE "disabled"]

\* the providers the tier settings name
TierProviders == {TierProvider(tier) : tier \in {"default", "premium", "vip"}}

\* the configurations the TTS manager is started with: the three tier
\* providers each absent (its constructor raised) or constructed from an
\* 'enabled' flag and credentials that are there or not, gtts switched on
\* or off, the other two as the example configuration has them
Configurations ==
    {provs \in [ProviderNames -> ProviderStates] :
        /\ provs["gtts"] \in {"disabled", "enabled"}
        /\ \A p \in TierProviders :
              \/ provs[p] = "absent"
              \/ \E e, c \in BOOLEAN : provs[p] = provider_init(p, e, c)
        /\ \A p \in ProviderNames \ (TierProviders \cup {"gtts"}) :
              provs[p] = ExampleProviders[p]}

NoCall ==
    [result |-> FALSE, used_provider |-> NoProvider, invoked |-> <<>>,
     audio_file |-> NoFile, played |-> FALSE,
     preferred |-> NoProvider, outs |-> [p \in ProviderNames |-> "none"],
     deviceOk |-> FALSE]


\* ------------------------------------------------------ the provider cache
\* TTSProvider.get_cache_path: the name of the cache file is the digest of
\* f"{text}_{voice}_{kwargs}"; the digest is taken as faithful to that
\* string, which is modelled as it is built
get_cache_path(text, v, kwargs) == text \o <<"_">> \o v \o <<"_">> \o kwargs

\* Path(tempfile.mktemp(suffix='.mp3')): a name outside the cache directory
TempPath == <<"tmp">>

\* what one communicate.save(path) does: writes the file, raises before
\* creating it, or raises after creating it
SaveOutcomes == {"saved", "failed", "partial"}

\* the file names in the cache directory after a save at output_path
AfterSave(files, output_path, outcome) ==
    IF outcome \in {"saved", "partial"} /\ output_path # TempPath
    THEN files \cup {output_path} ELSE files

\* EdgeTTSProvider.generate_speech of an available provider; first and
\* second are the outcomes of the save in the try block and of the save in
\* its except block: [files, path, returned, vendor_called]
generate_speech(files, text, v, kwargs, cache_enabled, first, second) ==
    LET cache_path == get_cache_path(text, v, kwargs)
        output_path == IF cache_enabled THEN cache_path ELSE TempPath
        files1 == AfterSave(files, output_path, first)
        files2 == AfterSave(files1, output_path, second)
    IN IF cache_enabled /\ cache_path \in files
       THEN [files |-> files, path |-> cache_path, returned |-> TRUE,
             vendor_called |-> 0]
       ELSE IF first = "saved"
       THEN [files |-> files1, path |-> output_path, returned |-> TRUE,
             vendor_called |-> 1]
       ELSE IF second = "saved"
       THEN [files |-> files2, path |-> output_path, returned |-> TRUE,
             vendor_called |-> 2]
       ELSE [files |-> files2, path |-> <<>>, returned |-> FALSE,
             vendor_called |-> 2]

\* no generate_speech call made yet
NoGen ==
    [text |-> <<>>, voice |-> <<>>, kwargs |-> <<>>, cache_enabled |-> FALSE,
     path |-> <<>>, returned |-> FALSE, vendor_called |-> 0, n |-> 0]

\* no request served yet
NoRet ==
    [op |-> "none", arg |-> 0, case |-> "none", ok |-> FALSE, status |-> 0,
     message |-> "", notifier |-> "none"]

\* ---------------------------------------------------------- request threads
InitLoc ==
    [item |-> 0, tts |-> FALSE, chainFail |-> FALSE, playFail |-> FALSE,
     st |-> ZeroCS, act |-> ZeroCS, ret |-> "idle"]

Max(S) == CHOOSE x \in S : \A y \in S : y <= x

\* the instants written so far: the seconds of created_at, the markers
Written ==
    {0} \cup {items[i].created_at * TicksPerSec : i \in DOMAIN items}
        \cup {items[i].timestamp[1] :
                 i \in {j \in DOMAIN items : HasResetMarker(items[j])}}
        \cup {resetLog[k].at : k \in DOMAIN resetLog}

\* the instants a reading of the clock can return now
Instants == Max(Written)..MaxClock

\* the instants datetime.now() can return to a reset: two resets are two
\* requests, and the second reads the clock after the first
ResetInstants ==
    {c \in Instants : \A k \in DOMAIN resetLog : c > resetLog[k].at}

InitHist == [marks |-> 0, synths |-> 0, markFails |-> 0]

\* a transaction of n statements runs through (0) or fails at a point
FailChoice(n) == {0} \cup FailPoints(n)

\* failed mark_processed calls so far (they are counted per item, so the
\* model bounds them)
MarkFailures ==
    LET RECURSIVE Sum(_)
        Sum(k) == IF k = 0 THEN 0 ELSE hist[k].markFails + Sum(k - 1)
    IN Sum(Len(hist))

LockAvailable_NoLock(l) == TRUE

\* "with self.processing_lock": the lock can be taken
LockAvailable(l) == l = NoThread

Init ==
    /\ items = <<>>
    /\ agg = ZeroCS
    /\ lock = NoThread
    /\ pc = [t \in Threads |-> "idle"]
    /\ loc = [t \in Threads |-> InitLoc]
    /\ hist = <<>>
    /\ resetLog = <<>>
    /\ repairs = 0
    /\ providers = ExampleProviders
    /\ call = NoCall
    /\ ttsStats = InitTtsStats
    /\ user_voices = NoUserVoices
    /\ voice = NoVoice
    /\ cache = {}
    /\ gen = NoGen
    /\ generation_times = <<>>
    /\ ret = NoRet

\* the handler of thread t returns; a process_next_item leaves the
\* "with self.processing_lock" block
Return(t) ==
    /\ pc' = [pc EXCEPT ![t] = "idle"]
    /\ loc' = [loc EXCEPT ![t] = InitLoc]
    /\ lock' = IF loc[t].ret = "release" \/ pc[t] \in {"failed"}
               THEN NoThread ELSE lock

Goto(t, label) == pc' = [pc EXCEPT ![t] = label]

AddDonation_Locked(t) ==
    /\ pc[t] = "idle"
    /\ LockAvailable(lock)
    /\ Len(items) < MaxItems
    /\ \E amount \in Amounts, now \in Instants, f \in FailChoice(1) :
         LET r == add_to_queue(Db(items, agg), DefaultUsername, amount,
                               now, f) IN
           /\ items' = r.db.items
           /\ agg' = r.db.agg
           /\ IF r.ok
              THEN /\ hist' = Append(hist, InitHist)
                   /\ Goto(t, "st_agg")
              ELSE /\ hist' = hist
                   /\ Goto(t, "idle")
    /\ UNCHANGED <<lock, loc, resetLog, repairs, ttsVars, ret>>

\* POST /add_donation -> TTSQueueSystem.add_to_queue -> db.add_to_queue,
\* then update_displays
AddDonation(t) ==
    /\ pc[t] = "idle"
    /\ Len(items) < MaxItems
    /\ \E amount \in Amounts, now \in Instants, f \in FailChoice(1) :
         LET r == add_to_queue(Db(items, agg), DefaultUsername, amount,
                               now, f) IN
           /\ items' = r.db.items
           /\ agg' = r.db.agg
           /\ IF r.ok
              THEN /\ hist' = Append(hist, InitHist)
                   /\ Goto(t, "st_agg")
              ELSE /\ hist' = hist
                   /\ Goto(t, "idle")
    /\ UNCHANGED <<lock, loc, resetLog, repairs, ttsVars, ret>>

\* get_queue_stats (GET /queue_stats, or update_displays at the end of a
\* handler): the SELECT of the queue_stats row.  The SELECT over the pending
\* rows before it feeds only the returned dictionary (StatsResult).
StatsReadAgg(t) ==
    /\ pc[t] \in {"idle", "st_agg"}
    /\ loc' = [loc EXCEPT ![t].st = agg]
    /\ Goto(t, "st_actual")
    /\ UNCHANGED <<items, agg, lock, hist, resetLog, repairs, ttsVars, ret>>

\* get_queue_stats, third SELECT (the processed rows without a marker) and
\* the comparison
StatsReadActual(t) ==
    /\ pc[t] = "st_actual"
    /\ LET actual == ActualProcessed(items) IN
         IF ShouldAutoRepair(loc[t].st, actual)
         THEN /\ loc' = [loc EXCEPT ![t].act = actual, ![t].st = ZeroCS]
              /\ Goto(t, "st_write")
              /\ lock' = lock
         ELSE Return(t)
    /\ UNCHANGED <<items, agg, hist, resetLog, repairs, ttsVars, ret>>

\* get_queue_stats, the auto-repair UPDATE and commit
StatsWrite(t) ==
    /\ pc[t] = "st_write"
    /\ \E f \in FailChoice(1) :
         LET d == Db(items, agg)
             r == WithConnection(d, <<SetTotals(d, loc[t].act)>>, f)
         IN /\ items' = r.items
            /\ agg' = r.agg
     /\ Return(t)
    /\ UNCHANGED <<hist, resetLog, repairs, ttsVars, ret>>


ProcBegin_NoAcquire(t) ==
    /\ pc[t] = "idle"
    /\ \/ /\ UNCHANGED <<lock, pc, loc>>
       \/ /\ \E i \in NextItemCandidates(items) :
               loc' = [loc EXCEPT ![t].item = i]
          /\ lock' = lock
          /\ Goto(t, "synth")
    /\ UNCHANGED <<items, agg, hist, resetLog, repairs, ttsVars, ret>>

\* process_next_item: take processing_lock and call get_next_item; no row
\* (or a failed SELECT, which get_next_item turns into None) returns False
ProcBegin(t) ==
    /\ pc[t] = "idle"
    /\ LockAvailable(lock)
    /\ \/ /\ UNCHANGED <<lock, pc, loc>>
       \/ /\ \E i \in NextItemCandidates(items) :
               loc' = [loc EXCEPT ![t].item = i]
          /\ lock' = t
          /\ Goto(t, "synth")
    /\ UNCHANGED <<items, agg, hist, resetLog, repairs, ttsVars, ret>>

\* self.tts.generate_and_play_tts(message, username, amount): the providers
\* and the audio device answer as they will.  Only the returned value is
\* kept here; TTSManager.stats is followed in SpecTTS.
ProcSynth(t) ==
    /\ pc[t] = "synth"
    /\ \E outs \in ProviderAnswers(providers), deviceOk \in BOOLEAN :
         \E r \in {generate_and_play_tts(
                      TierProvider(Tier(items[loc[t].item].amount)),
                      providers, outs, deviceOk, ttsStats)} :
            /\ loc' = [loc EXCEPT
                  ![t].tts = r.result,
                  ![t].chainFail =
                      \A p \in ProviderNames :
                          providers[p] # "enabled" \/ outs[p] # "file",
                  ![t].playFail = ~deviceOk]
            /\ hist' = [hist EXCEPT ![loc[t].item].synths =
                           IF r.result THEN @ + 1 ELSE @]
            /\ Goto(t, IF r.result THEN "mark" ELSE "failed")
    /\ UNCHANGED <<items, agg, lock, resetLog, repairs, ttsVars, ret>>

\* the else branch: "TTS playback failed", return False
ProcFailed(t) ==
    /\ pc[t] = "failed"
    /\ Return(t)
    /\ UNCHANGED <<items, agg, hist, resetLog, repairs, ttsVars, ret>>

\* self.db.mark_processed(item_id), whose returned value is not looked at,
\* then self.discord.send_message(...) and update_displays inside the lock
ProcMark(t) ==
    /\ pc[t] = "mark"
    /\ \E f \in IF MarkFailures < MaxFail THEN FailChoice(2) ELSE {0} :
         LET r == mark_processed(Db(items, agg), loc[t].item, f) IN
           /\ items' = r.db.items
           /\ agg' = r.db.agg
           /\ loc' = [loc EXCEPT ![t] = [InitLoc EXCEPT !.ret = "release"]]
           /\ hist' = [hist EXCEPT
                  ![loc[t].item].marks = IF r.ok THEN @ + 1 ELSE @,
                  ![loc[t].item].markFails = IF r.ok THEN @ ELSE @ + 1]
    /\ Goto(t, "st_agg")
    /\ UNCHANGED <<lock, resetLog, repairs, ttsVars, ret>>

InProgress(labels) == Cardinality({t \in Threads : pc[t] \in labels})

\* POST /api/repair -> repair_stats_table: the SELECT over processed rows
RepairRead(t) ==
    /\ pc[t] = "idle"
    /\ repairs + InProgress({"rp_write"}) < MaxRepairs
    /\ loc' = [loc EXCEPT ![t].act = AllProcessed(items)]
    /\ Goto(t, "rp_write")
    /\ UNCHANGED <<items, agg, lock, hist, resetLog, repairs, ttsVars, ret>>

\* repair_stats_table: the UPDATE and commit; on success update_displays
RepairWrite(t) ==
    /\ pc[t] = "rp_write"
    /\ \E f \in FailChoice(1) :
         LET r == repair_stats_table(Db(items, agg), loc[t].act, f) IN
           /\ items' = r.db.items
           /\ agg' = r.db.agg
           /\ repairs' = IF r.ok THEN repairs + 1 ELSE repairs
           /\ IF r.ok
              THEN /\ loc' = [loc EXCEPT ![t] = InitLoc]
                   /\ Goto(t, "st_agg")
              ELSE /\ loc' = [loc EXCEPT ![t] = InitLoc]
                   /\ Goto(t, "idle")
    /\ UNCHANGED <<lock, hist, resetLog, ttsVars, ret>>

\* the rows a reset at this moment tags
Untagged(its) == {i \in DOMAIN its : ~HasResetMarker(its[i])}

\* the summary reset_queue_counter returns: processed_counts and
\* pending_counts are SELECTed over all rows, tagged before or not
ResetInfo(d, reset_timestamp) ==
    LET processed_counts == AllProcessed(d.items)
        pending_counts == PendingStats(d.items)
    IN [reset_timestamp |-> reset_timestamp,
        items_archived |-> processed_counts.count + pending_counts.count,
        total_amount_archived |->
            processed_counts.amount + pending_counts.amount,
        processed_items_archived |-> processed_counts.count,
        pending_items_archived |-> pending_counts.count]

\* POST /reset_counter -> reset_queue_counter: reset_timestamp =
\* datetime.now(), the three UPDATEs and the commit.  The SELECTs before
\* them feed only the returned summary (ResetInfo), and
\* update_displays(force_stats) reads nothing.
ResetCounter(t) ==
    /\ pc[t] = "idle"
    /\ Len(resetLog) < MaxResets
    /\ \E now \in ResetInstants, f \in FailChoice(3) :
         LET r == reset_queue_counter(Db(items, agg), now, f) IN
           /\ items' = r.db.items
           /\ agg' = r.db.agg
           /\ resetLog' =
                IF r.ok
                THEN Append(resetLog,
                            [at |-> now,
                             n |-> Cardinality(Untagged(items)),
                             amount |-> SumAmount(items, Untagged(items))])
                ELSE resetLog
    /\ UNCHANGED <<lock, pc, loc, hist, repairs, ttsVars, ret>>

\* one step of a request thread
Handler(t) ==
    \/ AddDonation(t)
    \/ StatsReadAgg(t)
    \/ StatsReadActual(t)
    \/ StatsWrite(t)
    \/ ProcBegin(t)
    \/ ProcSynth(t)
    \/ ProcFailed(t)
    \/ ProcMark(t)
    \/ RepairRead(t)
    \/ RepairWrite(t)
    \/ ResetCounter(t)

\* the server with its request threads running concurrently
Next == \E t \in Threads : Handler(t)

Spec == Init /\ [][Next]_vars

\* the server answering one request at a time
NextSeq == Handler("t1")

SpecSeq == Init /\ [][NextSeq]_vars

\* ------------------------------------------- operations issued one at a time
\* the 'amount' of a request body: a number, a text that is no number, or
\* no such key
RawAmounts ==
    {[kind |-> "number", value |-> -2], [kind |-> "number", value |-> 2],
     [kind |-> "text", value |-> 0], [kind |-> "absent", value |-> 0]}

\* float(data.get('amount', 0.0)): [ok, value]; float raises on the text
ParseAmount(raw) ==
    CASE raw.kind = "number" -> [ok |-> TRUE, value |-> raw.value]
      [] raw.kind = "absent" -> [ok |-> TRUE, value |-> 0]
      [] OTHER -> [ok |-> FALSE, value |-> 0]

\* the username key of a request body: absent, JSON null, or a string that
\* is empty, blank, or a name with blanks around it
RawUsernames ==
    {[kind |-> "absent", value |-> <<>>], [kind |-> "null", value |-> <<>>],
     [kind |-> "text", value |-> <<>>], [kind |-> "text", value |-> <<" ">>],
     [kind |-> "text", value |-> <<" ", "kim", " ">>]}

\* data.get('username', 'Anonymous'): the default only when the key is absent
GetUsername(rawName) ==
    CASE rawName.kind = "absent" -> DefaultUsername
      [] rawName.kind = "null" -> NoneUsername
      [] OTHER -> rawName.value

\* the route /add_donation run alone: [db, ok, case, status, message, value]
add_donation(d, rawName, raw, c, failAt) ==
    LET p == ParseAmount(raw)
        r == add_to_queue(d, GetUsername(rawName), p.value, c, failAt)
    IN IF ~p.ok
       THEN [db |-> d, ok |-> FALSE, case |-> "invalid", status |-> 500,
             message |-> "could not convert string to float", value |-> 0]
       ELSE IF r.ok
       THEN [db |-> get_queue_stats(r.db).db, ok |-> TRUE, case |-> "added",
             status |-> 200, message |-> "Added to queue",
             value |-> p.value]
       ELSE [db |-> d, ok |-> FALSE, case |-> "storage", status |-> 500,
             message |-> "Failed to add to queue", value |-> p.value]

\* what the webhook does when send_message runs: the notifier is disabled
\* (no request is made), answers 200, answers another status, or raises
NotifierOutcomes == {"disabled", "sent", "rejected", "raised"}

\* DiscordManager.send_message: the value returned; an exception of the
\* webhook is caught inside
send_message(discord) == discord \in {"disabled", "sent"}

process_next_item_Undo(d, item, provs, outs, deviceOk, stats, failAt, discord) ==
    IF item = 0
    THEN [db |-> d, result |-> FALSE, case |-> "empty", notified |-> FALSE]
    ELSE LET tts == generate_and_play_tts(
                        TierProvider(Tier(d.items[item].amount)),
                        provs, outs, deviceOk, stats)
             m == mark_processed(d, item, failAt)
         IN IF tts.result
            THEN [db |-> IF send_message(discord)
                         THEN get_queue_stats(m.db).db ELSE d,
                  result |-> TRUE,
                  case |-> IF m.ok THEN "processed" ELSE "mark_failed",
                  notified |-> TRUE]
            ELSE [db |-> d, result |-> FALSE, case |-> "tts_failed",
                  notified |-> FALSE]

\* TTSQueueSystem.process_next_item run alone, item = 0 when get_next_item
\* returned no row: [db, result, case, notified].  The value send_message
\* returns is not looked at.
process_next_item(d, item, provs, outs, deviceOk, stats, failAt, discord) ==
    IF item = 0
    THEN [db |-> d, result |-> FALSE, case |-> "empty", notified |-> FALSE]
    ELSE LET tts == generate_and_play_tts(
                        TierProvider(Tier(d.items[item].amount)),
                        provs, outs, deviceOk, stats)
             m == mark_processed(d, item, failAt)
         IN IF tts.result
            THEN [db |-> get_queue_stats(m.db).db, result |-> TRUE,
                  case |-> IF m.ok THEN "processed" ELSE "mark_failed",
                  notified |-> TRUE]
            ELSE [db |-> d, result |-> FALSE, case |-> "tts_failed",
                  notified |-> FALSE]

\* the route /process_next: the reply for the value process_next_item returns
process_next(result) ==
    IF result
    THEN [ok |-> TRUE, status |-> 200, message |-> "Item processed"]
    ELSE [ok |-> FALSE, status |-> 200,
          message |-> "No items in queue or processing failed"]

\* POST /add_donation
AddDonationRequest(rawNames) ==
    /\ Len(items) < MaxItems
    /\ \E rawName \in rawNames, raw \in RawAmounts, now \in Instants,
          f \in FailChoice(1) :
         \E r \in {add_donation(Db(items, agg), rawName, raw, now, f)} :
            /\ items' = r.db.items
            /\ agg' = r.db.agg
            /\ hist' = IF r.ok THEN Append(hist, InitHist) ELSE hist
            /\ ret' = [op |-> "add_donation", arg |-> r.value,
                       case |-> r.case, ok |-> r.ok, status |-> r.status,
                       message |-> r.message, notifier |-> "none"]
    /\ UNCHANGED <<lock, pc, loc, resetLog, repairs, ttsVars>>

\* a request whose body has no username key
ReqAddDonation == AddDonationRequest({[kind |-> "absent", value |-> <<>>]})

\* a request whose body has any of the usernames
ReqAddDonationNamed == AddDonationRequest(RawUsernames)

\* POST /process_next
ProcessNextRequest(answers, devices, fails) ==
    /\ \E item \in IF PendingIds(items) = {} THEN {0}
                    ELSE NextItemCandidates(items),
          outs \in answers, deviceOk \in devices, f \in fails,
          discord \in NotifierOutcomes :
         \E r \in {process_next_item(Db(items, agg), item, providers, outs,
                                     deviceOk, ttsStats, f, discord)} :
            /\ items' = r.db.items
            /\ agg' = r.db.agg
            /\ hist' =
                 IF r.result
                 THEN [hist EXCEPT
                         ![item].synths = @ + 1,
                         ![item].marks =
                             IF r.case = "processed" THEN @ + 1 ELSE @,
                         ![item].markFails =
                             IF r.case = "processed" THEN @ ELSE @ + 1]
                 ELSE hist
            /\ ret' = [op |-> "process_next", arg |-> item, case |-> r.case,
                       ok |-> process_next(r.result).ok,
                       status |-> process_next(r.result).status,
                       message |-> process_next(r.result).message,
                       notifier |-> IF r.notified THEN discord ELSE "none"]
    /\ UNCHANGED <<lock, pc, loc, resetLog, repairs, ttsVars>>

\* a request in which the providers, the audio device and the commit of
\* mark_processed do as they will
ReqProcessNext ==
    ProcessNextRequest(ProviderAnswers(providers), BOOLEAN,
                       IF MarkFailures < MaxFail THEN FailChoice(2) ELSE {0})

\* the answers with which synthesis succeeds whichever provider is preferred
GoodAnswers ==
    {outs \in ProviderAnswers(providers) :
        \A preferred \in TierProviders :
           generate_and_play_tts(preferred, providers, outs, TRUE,
                                 ttsStats).result}

\* a request in which synthesis, playback and the mark succeed
ReqProcessNextOk == ProcessNextRequest(GoodAnswers, {TRUE}, {0})

\* a DatabaseManager.mark_processed(item_id) call, the id known or not
DbMark ==
    /\ \E item_id \in 1..(MaxItems + 1), f \in FailChoice(2) :
         /\ item_id \in DOMAIN hist => hist[item_id].marks < MaxMarks
         /\ \E r \in {mark_processed(Db(items, agg), item_id, f)} :
              /\ items' = r.db.items
              /\ agg' = r.db.agg
              /\ hist' = IF r.ok /\ item_id \in DOMAIN hist
                         THEN [hist EXCEPT ![item_id].marks = @ + 1]
                         ELSE hist
              /\ ret' = [op |-> "mark_processed", arg |-> item_id,
                         case |-> IF r.ok THEN "marked" ELSE "failed",
                         ok |-> r.ok, status |-> 0, message |-> "",
                       notifier |-> "none"]
    /\ UNCHANGED <<lock, pc, loc, resetLog, repairs, ttsVars>>

\* a DatabaseManager.reset_queue_counter() call
DbReset ==
    /\ Len(resetLog) < MaxResets
    /\ \E now \in ResetInstants, f \in FailChoice(3) :
         \E r \in {reset_queue_counter(Db(items, agg), now, f)} :
            /\ items' = r.db.items
            /\ agg' = r.db.agg
            /\ resetLog' =
                 IF r.ok
                 THEN Append(resetLog,
                             [at |-> now,
                              n |-> Cardinality(Untagged(items)),
                              amount |-> SumAmount(items, Untagged(items))])
                 ELSE resetLog
            /\ ret' = [op |-> "reset", arg |-> f,
                       case |-> IF r.ok THEN "reset" ELSE "failed",
                       ok |-> r.ok, status |-> 0, message |-> "",
                       notifier |-> "none"]
    /\ UNCHANGED <<lock, pc, loc, hist, repairs, ttsVars>>

\* a DatabaseManager.repair_stats_table() call; ret.arg keeps the
\* total_processed the call found
DbRepair ==
    /\ repairs < MaxRepairs
    /\ \E f \in FailChoice(1) :
         \E r \in {repair_stats_table(Db(items, agg), AllProcessed(items),
                                      f)} :
            /\ items' = r.db.items
            /\ agg' = r.db.agg
            /\ repairs' = IF r.ok THEN repairs + 1 ELSE repairs
            /\ ret' = [op |-> "repair", arg |-> agg.count,
                       case |-> IF r.ok THEN "repaired" ELSE "failed",
                       ok |-> r.ok, status |-> 0, message |-> "",
                       notifier |-> "none"]
    /\ UNCHANGED <<lock, pc, loc, hist, resetLog, ttsVars>>

\* a DatabaseManager.get_queue_stats() call
DbStats ==
    /\ \E r \in {get_queue_stats(Db(items, agg))} :
         /\ items' = r.db.items
         /\ agg' = r.db.agg
         /\ ret' = [op |-> "stats", arg |-> r.out.total_processed,
                    case |-> IF r.db.agg = agg THEN "read" ELSE "repaired",
                    ok |-> TRUE, status |-> 0, message |-> "",
                       notifier |-> "none"]
    /\ UNCHANGED <<lock, pc, loc, hist, resetLog, repairs, ttsVars>>

\* requests to the routes, served one after the other
NextApi ==
    \/ ReqAddDonation
    \/ ReqProcessNext
    \/ DbStats

SpecApi == Init /\ [][NextApi]_vars

\* calls of the DatabaseManager methods, one after the other
NextDb ==
    \/ ReqAddDonation
    \/ DbMark
    \/ DbReset
    \/ DbRepair
    \/ DbStats

SpecDb == Init /\ [][NextDb]_vars

\* ingestion alone: requests to /add_donation with every kind of username
NextIngest == ReqAddDonationNamed

SpecIngest == Init /\ [][NextIngest]_vars

\* donations arrive and /process_next is triggered again and again, every
\* attempt succeeding and no reset being made
NextLive ==
    \/ ReqAddDonation
    \/ ReqProcessNextOk

SpecLive == Init /\ [][NextLive]_vars /\ WF_vars(ReqProcessNextOk)

\* ------------------------------------------------ the TTS manager by itself
InitTTS ==
    /\ items = <<>>
    /\ agg = ZeroCS
    /\ lock = NoThread
    /\ pc = [t \in Threads |-> "idle"]
    /\ loc = [t \in Threads |-> InitLoc]
    /\ hist = <<>>
    /\ resetLog = <<>>
    /\ repairs = 0
    /\ providers \in Configurations
    /\ call = NoCall
    /\ ttsStats = InitTtsStats
    /\ user_voices = NoUserVoices
    /\ voice = NoVoice
    /\ cache = {}
    /\ gen = NoGen
    /\ generation_times = <<>>
    /\ ret = NoRet

\* time.time() - start_time of a call, in units
Latencies == {1, 2}

\* one generate_and_play_tts call: the tier of the amount names the preferred
\* provider, the providers and the audio device answer as they will, and
\* the call takes the time it takes
GenerateAndPlay ==
    /\ \E preferred \in TierProviders,
          outs \in ProviderAnswers(providers), deviceOk \in BOOLEAN,
          generation_time \in Latencies :
         \E r \in {generate_and_play_tts(preferred, providers, outs,
                                          deviceOk, ttsStats)} :
            /\ call' = [result |-> r.result,
                        used_provider |-> r.used_provider,
                        invoked |-> r.invoked,
                        audio_file |-> r.audio_file,
                        played |-> r.played,
                        preferred |-> preferred,
                        outs |-> outs,
                        deviceOk |-> deviceOk]
            /\ ttsStats' = r.stats
            /\ generation_times' =
                 IF r.played
                 THEN record_generation_time(generation_times,
                                             generation_time)
                 ELSE generation_times
    /\ UNCHANGED <<items, agg, lock, pc, loc, hist, resetLog, repairs,
                   providers, user_voices, voice, cache, gen, ret>>

TTSCall ==
    /\ ttsStats.total_generated < MaxCalls
    /\ GenerateAndPlay

NextTTS == TTSCall

SpecTTS == InitTTS /\ [][NextTTS]_vars

\* ------------------------------------------- the rolling latency history
\* the manager after no call, or after enough calls to have the history
\* one entry below its limit
StartLengths == {0, GENERATION_TIMES_KEPT - 1}

StartHistories ==
    {[k \in 1..n |-> ((k + off) % 2) + 1] : n \in StartLengths, off \in {0, 1}}

\* the statistics after n calls that edge_tts served
StatsAfter(n) ==
    [InitTtsStats EXCEPT !.total_generated = n, !.generation_times = n,
                         !.provider_usage["edge_tts"] = n]

InitLatency ==
    /\ items = <<>>
    /\ agg = ZeroCS
    /\ lock = NoThread
    /\ pc = [t \in Threads |-> "idle"]
    /\ loc = [t \in Threads |-> InitLoc]
    /\ hist = <<>>
    /\ resetLog = <<>>
    /\ repairs = 0
    /\ providers = ExampleProviders
    /\ call = NoCall
    /\ generation_times \in StartHistories
    /\ ttsStats = StatsAfter(Len(generation_times))
    /\ user_voices = NoUserVoices
    /\ voice = NoVoice
    /\ cache = {}
    /\ gen = NoGen
    /\ ret = NoRet

\* a further generate_and_play_tts call
LatencyCall ==
    /\ \E n \in StartLengths :
         n <= ttsStats.total_generated
            /\ ttsStats.total_generated < n + MaxRecords
    /\ GenerateAndPlay

NextLatency == LatencyCall

SpecLatency == InitLatency /\ [][NextLatency]_vars


\* ------------------------------------------------- the spoken text by itself
\* texts are sequences of characters here, so that len() counts characters
MaxText == 3

Digit(n) == <<"0", "1", "2", "3", "4", "5", "6", "7", "8", "9">>[n + 1]

RECURSIVE Digits(_)
Digits(n) == IF n < 10 THEN <<Digit(n)>>
             ELSE Append(Digits(n \div 10), Digit(n % 10))

\* f"{amount:.2f}" of an amount given in hundredths
FormatAmount(cents) ==
    LET a == IF cents < 0 THEN -cents ELSE cents
    IN (IF cents < 0 THEN <<"-">> ELSE <<>>) \o Digits(a \div 100)
         \o <<".", Digit((a % 100) \div 10), Digit(a % 10)>>

DonatedPart == <<" ", "d", "o", "n", "a", "t", "e", "d", " ", "$">>

SaysPart == <<" ", "a", "n", "d", " ", "s", "a", "y", "s", ":", " ">>

TruncationMarker == <<".", ".", ".", " ", "m", "e", "s", "s", "a", "g", "e", " ", "t", "r", "u", "n", "c", "a", "t", "e", "d">>

\* f"{username} donated ${amount:.2f} and says: {text}"
CombinedText(username, cents, text) ==
    username \o DonatedPart \o FormatAmount(cents) \o SaysPart \o text

\* text[:max_length] for max_length >= 0
Slice(text, max_length) ==
    SubSeq(text, 1, IF max_length < Len(text) THEN max_length ELSE Len(text))

MustTruncate_AtLimit(text, max_length) == Len(text) >= max_length

\* len(tts_text) > max_length
MustTruncate(text, max_length) == Len(text) > max_length

\* the text generate_and_play_tts hands to the providers
tts_text(username, cents, text, max_length) ==
    LET combined == CombinedText(username, cents, text)
    IN IF MustTruncate(combined, max_length)
       THEN Slice(combined, max_length) \o TruncationMarker
       ELSE combined

SpokenUsernames == {<<>>, <<"k">>, <<"k", "i", "m">>}

SpokenAmounts == {0, 1205}

RECURSIVE SeqsUpTo(_, _)
SeqsUpTo(S, n) ==
    IF n = 0 THEN {<<>>}
    ELSE SeqsUpTo(S, n - 1) \cup
         {Append(q, c) : q \in {x \in SeqsUpTo(S, n - 1) : Len(x) = n - 1},
                         c \in S}

SpokenTexts == SeqsUpTo({"a", " "}, MaxText)

\* the shortest combined text, with an empty username and message
ShortestCombined == Len(CombinedText(<<>>, 0, <<>>))

\* max_message_length of the configuration: lengths around those of the
\* combined texts, and the default
MaxLengths == {0} \cup (ShortestCombined..(ShortestCombined + 4)) \cup {500}

\* the first lines of generate_and_play_tts, up to the text handed on
Speak ==
    /\ \E username \in SpokenUsernames, cents \in SpokenAmounts,
          text \in SpokenTexts, max_length \in MaxLengths :
         ret' = [op |-> "speak",
                 arg |-> [username |-> username, amount |-> cents,
                          text |-> text, max_length |-> max_length],
                 case |-> IF MustTruncate(CombinedText(username, cents, text),
                                          max_length)
                          THEN "truncated" ELSE "whole",
                 ok |-> TRUE, status |-> 0,
                 message |-> tts_text(username, cents, text, max_length),
                 notifier |-> "none"]
    /\ UNCHANGED <<items, agg, lock, pc, loc, hist, resetLog, repairs,
                   ttsVars>>

NextSpeak == Speak

SpecSpeak == Init /\ [][NextSpeak]_vars

\* ------------------------------------------------- the voice settings by itself
Usernames == {"alice", "bob"}

Voices == {"en-US-AriaNeural", "en-GB-RyanNeural"}

\* amounts around the two tier thresholds, in hundredths
TierAmounts == {0, 2499, 2500, 9999, 10000}

\* IntegratedTTSManager.set_user_voice_preference -> TTSManager.set_user_voice
SetUserVoice ==
    /\ \E u \in Usernames, p \in TierProviders, v \in Voices :
         user_voices' = set_user_voice(user_voices, u, p, v)
    /\ UNCHANGED <<items, agg, lock, pc, loc, hist, resetLog, repairs,
                   providers, call, ttsStats, voice, cache, gen, ret,
                   generation_times>>

\* one get_voice_settings call
ResolveVoice ==
    /\ \E u \in Usernames, a \in TierAmounts :
         voice' = [username |-> u, amount |-> a,
                   settings |-> get_voice_settings(user_voices, u, a),
                   asked |-> TRUE]
    /\ UNCHANGED <<items, agg, lock, pc, loc, hist, resetLog, repairs,
                   providers, call, ttsStats, user_voices, cache, gen, ret,
                   generation_times>>

NextVoice == SetUserVoice \/ ResolveVoice

SpecVoice == Init /\ [][NextVoice]_vars

\* --------------------------------------------------- one provider by itself
\* spoken texts, voice names and option strings; two (text, voice) pairs
\* spell the same f-string
Texts == {<<"hi">>, <<"hi", "_", "x">>}

VoiceNames == {<<"v">>, <<"x", "_", "v">>}

OptionStrings == {<<"{}">>, <<"{'rate': '+10%'}">>}

\* one provider.generate_speech call
GenerateSpeech ==
    /\ gen.n < MaxGenCalls
    /\ \E text \in Texts, v \in VoiceNames, kwargs \in OptionStrings,
          cache_enabled \in BOOLEAN, first \in SaveOutcomes,
          second \in SaveOutcomes :
         \E r \in {generate_speech(cache, text, v, kwargs, cache_enabled,
                                   first, second)} :
            /\ cache' = r.files
            /\ gen' = [text |-> text, voice |-> v, kwargs |-> kwargs,
                       cache_enabled |-> cache_enabled, path |-> r.path,
                       returned |-> r.returned,
                       vendor_called |-> r.vendor_called, n |-> gen.n + 1]
    /\ UNCHANGED <<items, agg, lock, pc, loc, hist, resetLog, repairs,
                   providers, call, ttsStats, user_voices, voice, ret,
                   generation_times>>

\* TTSManager.clear_cache: every *.mp3 of the cache directory is unlinked
ClearCache ==
    /\ cache # {}
    /\ cache' = {}
    /\ UNCHANGED <<items, agg, lock, pc, loc, hist, resetLog, repairs,
                   providers, call, ttsStats, user_voices, voice, gen, ret,
                   generation_times>>

NextCache == GenerateSpeech \/ ClearCache

SpecCache == Init /\ [][NextCache]_vars

\* ---------------------------------------------------------- get_reset_history
\* substr(timestamp, instr(timestamp, '[RESET:') + 7, 19): the first marker
\* of the row, to the second
reset_time(it) == ResetTimeKey(it.timestamp[1])

TaggedIds(its) == {i \in DOMAIN its : HasResetMarker(its[i])}

\* GROUP BY reset_time ORDER BY reset_time DESC, from the largest key down
RECURSIVE HistoryGroups(_, _)
HistoryGroups(its, keys) ==
    IF keys = {} THEN <<>>
    ELSE LET k == Max(keys)
             rows == {i \in TaggedIds(its) : reset_time(its[i]) = k}
         IN <<[reset_time |-> k,
               items_archived |-> Cardinality(rows),
               total_amount |-> SumAmount(its, rows)]>>
            \o HistoryGroups(its, keys \ {k})

\* DatabaseManager.get_reset_history
get_reset_history(its) ==
    LET all == HistoryGroups(its,
                   {reset_time(its[i]) : i \in TaggedIds(its)})
    IN SubSeq(all, 1, IF Len(all) > HISTORY_LIMIT THEN HISTORY_LIMIT
                      ELSE Len(all))

\* ===================================================================== claims
Idle == \A t \in Threads : pc[t] = "idle"

InFlight(t) == pc[t] \in {"synth", "failed", "mark"}

\* C1: next_pending returns the unprocessed item earliest by created_at and,
\* among equal created_at, the one with the smallest id.
C1_NextPendingTieById ==
    [][\A t \in Threads :
         (pc[t] = "idle" /\ pc'[t] = "synth") =>
            /\ loc'[t].item \in NextItemCandidates(items)
            /\ \A j \in NextItemCandidates(items) : loc'[t].item <= j]_vars

\* C2: concurrent process_next calls never process an item twice: an item
\* has at most one committed mark, is synthesized successfully at most once
\* unless a mark of it failed, and at most one call is in flight.
C2_NoDoubleProcessing ==
    /\ \A i \in DOMAIN hist :
         /\ hist[i].marks <= 1
         /\ hist[i].synths <= 1 + hist[i].markFails
    /\ \A t, u \in Threads : (InFlight(t) /\ InFlight(u)) => t = u
    /\ \A t \in Threads : InFlight(t) => lock = t

C2_Witness ==
    /\ Idle
    /\ Len(items) = 1
    /\ hist[1].marks = 1
    /\ hist[1].synths = 1
    /\ agg.count = 1

\* C3: mark_processed is all-or-nothing: a call either flips the item and
\* adds 1 and the item's amount to the aggregate, or (on a storage failure at
\* any point) leaves every row and the aggregate as they were.
C3_MarkAllOrNothing ==
    [][\A t \in Threads :
         (pc[t] = "mark" /\ pc'[t] # "mark") =>
            LET i == loc[t].item IN
              \/ /\ items' = [items EXCEPT ![i].processed = TRUE]
                 /\ agg'.count = agg.count + 1
                 /\ agg'.amount = agg.amount + items[i].amount
                 /\ hist'[i].marks = hist[i].marks + 1
              \/ /\ items' = items
                 /\ agg' = agg
                 /\ hist'[i].markFails = hist[i].markFails + 1]_vars

C3_Witness ==
    \E i \in DOMAIN items :
        /\ hist[i].markFails = 1
        /\ hist[i].marks = 0
        /\ ~items[i].processed
        /\ agg = ZeroCS
        /\ resetLog = <<>>

\* C4: the auto-repair write of stats() never makes total_processed or
\* total_amount smaller than the value stored immediately before the write.
C4_ReconcilerNeverDecreases ==
    [][\A t \in Threads :
         (pc[t] = "st_write" /\ pc'[t] # "st_write") =>
            /\ agg'.count >= agg.count
            /\ agg'.amount >= agg.amount]_vars

\* C5: a stats() run right after a committed reset() reports processed count
\* 0 and processed amount 0 and leaves the aggregate row at 0/0.
C5_StatsAfterResetZero ==
    [][resetLog' # resetLog =>
         LET r == get_queue_stats(Db(items', agg')) IN
           /\ r.out.total_processed = 0
           /\ r.out.total_amount_processed = 0
           /\ r.db.agg = ZeroCS
           /\ r.db.items = items']_vars

C5_Witness ==
    /\ Len(resetLog) = 1
    /\ Len(items) = 2
    /\ hist[1].marks = 1
    /\ hist[2].marks = 0
    /\ items[1].amount > 0
    /\ \A i \in DOMAIN items : items[i].processed /\ HasResetMarker(items[i])
    /\ agg = ZeroCS

\* C6: in every quiescent state reached without manual_repair the aggregate
\* equals the count and the amount of the processed rows without a marker.
C6_SteadyState ==
    (Idle /\ repairs = 0) =>
        /\ agg.count = ActualProcessed(items).count
        /\ agg.amount = ActualProcessed(items).amount

\* C7: after two successful resets (each of which archived at least one
\* item) reset_history() returns exactly two groups, most recent first, each
\* with the count and amount of the items that reset archived.
C7_TwoResetsTwoGroups ==
    (/\ Len(resetLog) = 2
     /\ resetLog[1].n >= 1
     /\ resetLog[2].n >= 1) =>
        LET h == get_reset_history(items) IN
          /\ Len(h) = 2
          /\ \A k \in 1..2 :
               /\ h[k].reset_time = ResetTimeKey(resetLog[3 - k].at)
               /\ h[k].items_archived = resetLog[3 - k].n
               /\ h[k].total_amount = resetLog[3 - k].amount


\* the candidates of the last generate_and_play_tts call, in order
CallChain == providers_to_try(call.preferred)

\* the premise of C8: a call was made, the first three candidates A, B, C
\* are enabled, the first fails and the second and third would return a real artifact
C8_Premise ==
    /\ call.preferred # NoProvider
    /\ \A k \in 1..3 : providers[CallChain[k]] = "enabled"
    /\ call.outs[CallChain[1]] \in {"raise", "none", "missing"}
    /\ call.outs[CallChain[2]] = "file"
    /\ call.outs[CallChain[3]] = "file"

\* C8 as stated: with [A(fails), B(succeeds), C(succeeds)] the call returns
\* success, records B as used_provider and never invokes generate on C.
C8_FallbackReturnsSuccess ==
    C8_Premise =>
        /\ call.result = TRUE
        /\ call.used_provider = CallChain[2]
        /\ call.invoked = <<CallChain[1], CallChain[2]>>

\* C8 as amended: with [A(fails), B(succeeds), C(succeeds)] the call records
\* B as used_provider, plays B's artifact, never invokes generate on C, and
\* returns what the playback returns (success exactly when playback succeeds).
C8_FallbackUsesSecond ==
    C8_Premise =>
        /\ call.result = call.deviceOk
        /\ call.played
        /\ call.audio_file = [path |-> CallChain[2], exists |-> TRUE]
        /\ call.used_provider = CallChain[2]
        /\ call.invoked = <<CallChain[1], CallChain[2]>>

C8_Witness ==
    /\ C8_Premise
    /\ call.outs[CallChain[1]] = "raise"
    /\ call.deviceOk
    /\ call.result
    /\ call.used_provider = CallChain[2]

\* C9: process_next reaches mark_processed only after generate_and_play_tts
\* returned success for the pulled item; when no enabled provider returns a
\* real artifact, or the playback fails, the call returns failure, leaves
\* the rows and the aggregate as they are, and the item, while unprocessed,
\* is still a row of the earliest created_at among the unprocessed ones,
\* which is what get_next_item returns.
C9_State ==
    \A t \in Threads :
        /\ pc[t] = "mark" =>
              loc[t].tts /\ ~loc[t].chainFail /\ ~loc[t].playFail
        /\ pc[t] = "failed" => ~loc[t].tts
        /\ (pc[t] \in {"mark", "failed"}
              /\ (loc[t].chainFail \/ loc[t].playFail)) => pc[t] = "failed"
        /\ (InFlight(t) /\ ~items[loc[t].item].processed) =>
              loc[t].item \in NextItemCandidates(items)

C10_SuccessOnlyIfMarked ==
    [][\A t \in Threads :
         (pc[t] = "mark" /\ pc'[t] # "mark" /\ loc'[t].ret = "release") =>
            /\ items'[loc[t].item].processed
            /\ agg'.count = agg.count + 1
            /\ hist'[loc[t].item].marks = hist[loc[t].item].marks + 1]_vars

\* C11: get_voice_settings returns the per-user override whenever one
\* exists for the username, whatever the amount; otherwise the vip settings
\* for an amount of 100 or more, the premium settings from 25 up to 100, and
\* the default settings below 25.
C11_ResolveVoice ==
    [][voice' # voice =>
         LET u == voice'.username
             a == voice'.amount
         IN /\ user_voices' = user_voices
            /\ voice'.settings =
                 IF u \in DOMAIN user_voices THEN user_voices[u]
                 ELSE IF a >= 10000
                      THEN [provider |-> "elevenlabs",
                            voice |-> "EXAVITQu4vr4xnSDxMaL"]
                 ELSE IF a >= 2500
                      THEN [provider |-> "azure_tts",
                            voice |-> "en-US-JennyNeural"]
                 ELSE [provider |-> "edge_tts",
                       voice |-> "en-US-AriaNeural"]]_vars

C11_Witness ==
    /\ voice.asked
    /\ voice.amount = 10000
    /\ voice.username \in DOMAIN user_voices
    /\ voice.settings = user_voices[voice.username]
    /\ voice.settings.provider = "edge_tts"
    /\ \E u \in Usernames : u \notin DOMAIN user_voices

\* the step is a generate_speech call that repeats the call before it, which
\* had caching enabled and returned an artifact that no clear_cache removed
C12_Repeated ==
    /\ gen'.n = gen.n + 1
    /\ gen.n > 0 /\ gen.cache_enabled /\ gen.returned
    /\ gen.path \in cache
    /\ gen'.cache_enabled
    /\ gen'.text = gen.text /\ gen'.voice = gen.voice
    /\ gen'.kwargs = gen.kwargs

\* C12: a generate call repeating the identical (text, voice, options) of a
\* successful cached call returns the same artifact path, makes no vendor
\* call, and the cache-hit counter of the usage statistics increments.
C12_CacheHitCounted ==
    [][C12_Repeated =>
         /\ gen'.returned /\ gen'.path = gen.path
         /\ gen'.vendor_called = 0
         /\ ttsStats'.cache_hits = ttsStats.cache_hits + 1]_vars

\* C13: an ingestion request is accepted only when its amount parses as a
\* non-negative number, a rejected request inserts no item, and so every
\* stored item has an amount of at least zero
C13_AmountNonNegative ==
    /\ \A i \in DOMAIN items : items[i].amount >= 0
    /\ (ret.op = "add_donation" /\ ret.ok) => ret.arg >= 0

\* C14: no step removes an item row or changes the amount of one, a new row
\* gets an id above every existing one, and a processed flag that is true
\* stays true
C14_ItemsOnlyGrow ==
    [][/\ Len(items') >= Len(items)
       /\ \A i \in DOMAIN items :
            /\ items'[i].amount = items[i].amount
            /\ items[i].processed => items'[i].processed]_vars

C14_Witness ==
    /\ Len(items) = 2
    /\ hist[1].marks >= 1
    /\ HasResetMarker(items[1])
    /\ items[1].processed
    /\ items[2].processed
    /\ hist[2].marks = 0

\* C15: mark_processed called with an id that no item has returns failure
\* and changes neither the items nor the aggregate
C15_UnknownIdNoChange ==
    [][(ret' # ret /\ ret'.op = "mark_processed"
            /\ ret'.arg \notin DOMAIN items)
        => /\ ~ret'.ok
           /\ items' = items
           /\ agg' = agg]_vars

C15_Witness ==
    /\ ret.op = "mark_processed"
    /\ ret.arg \notin DOMAIN items
    /\ ~ret.ok
    /\ PendingIds(items) # {}
    /\ agg.count > 0

\* C16: a reset whose storage fails at any of its steps leaves items,
\* aggregate and reset history exactly as they were, and the caller is told
\* that it failed
C16_FailedResetNoChange ==
    [][(ret' # ret /\ ret'.op = "reset" /\ ret'.arg # 0)
        => /\ ~ret'.ok
           /\ items' = items
           /\ agg' = agg
           /\ resetLog' = resetLog]_vars

C16_Witness ==
    /\ ret.op = "reset"
    /\ ret.arg = 3
    /\ ~ret.ok
    /\ PendingIds(items) # {}
    /\ \E i \in ProcessedIds(items) : ~HasResetMarker(items[i])
    /\ agg.count > 0

\* C17: a successful manual repair sets the aggregate to the count and the
\* summed amount of all processed rows, archived ones included, whether the
\* aggregate was above or below them before, and touches no item
C17_RepairSetsAllProcessed ==
    [][(ret' # ret /\ ret'.op = "repair" /\ ret'.ok)
        => /\ agg'.count = Cardinality(ProcessedIds(items))
           /\ agg'.amount = SumAmount(items, ProcessedIds(items))
           /\ items' = items]_vars

\* a repair has lowered the aggregate, from 2 to the one processed row,
\* which is an archived one
C17_Witness ==
    /\ ret.op = "repair"
    /\ ret.ok
    /\ ret.arg = 2
    /\ agg.count = 1
    /\ \E i \in ProcessedIds(items) : HasResetMarker(items[i])

\* C18: process_next on an empty queue is answered with a reply that is no
\* error and that differs from the reply to a processing that failed
C18_EmptyIsNotAnError ==
    (ret.op = "process_next" /\ ret.case = "empty")
        => /\ ret.ok
           /\ [ok |-> ret.ok, status |-> ret.status, message |-> ret.message]
                  # process_next(FALSE)

\* C19: pulling the next item, synthesizing it and marking it happen inside
\* one critical section: the pull takes the free lock, the lock stays with
\* the pulling call and the pulled item stays the same until the mark has
\* run, and so at most one item is between its pull and its mark
C19_OneCriticalSection ==
    [][/\ \A t \in Threads :
            /\ (pc[t] = "idle" /\ pc'[t] = "synth")
                  => (lock = NoThread /\ lock' = t)
            /\ pc[t] \in {"synth", "mark"} => (lock = t /\ lock' = t)
            /\ (pc[t] = "synth" /\ pc'[t] = "mark")
                  => loc'[t].item = loc[t].item
       /\ Cardinality({t \in Threads : pc'[t] \in {"synth", "mark"}}) <= 1
      ]_vars

\* a call is about to mark its item while another item is pending and the
\* other thread is free to serve a request
C19_Witness ==
    /\ pc["t1"] = "mark"
    /\ lock = "t1"
    /\ pc["t2"] = "idle"
    /\ Cardinality(PendingIds(items)) = 2

\* C20: while a process_next call holds the processing lock, an idle thread
\* can serve an ingestion that inserts its item, and an item inserted while
\* the lock is held leaves the lock alone and is pending, so the next
\* get_next_item sees it
C20_IngestionNotBlocked ==
    /\ [](\A t, u \in Threads :
            (lock = t /\ pc[t] \in {"synth", "mark"} /\ pc[u] = "idle"
                /\ Len(items) < MaxItems)
              => ENABLED (AddDonation(u) /\ Len(items') = Len(items) + 1))
    /\ [][(lock # NoThread /\ Len(items') = Len(items) + 1)
           => /\ lock' = lock
              /\ Len(items') \in PendingIds(items')
              /\ NextItemCandidates(items') # {}]_vars

\* item 1 is being synthesized under the lock and item 2, created a second
\* later, is pending
C20_Witness ==
    /\ lock = "t1"
    /\ pc["t1"] = "synth"
    /\ loc["t1"].item = 1
    /\ Len(items) = 2
    /\ 2 \in PendingIds(items)
    /\ items[2].created_at > items[1].created_at
    /\ pc["t2"] = "st_agg"

\* C21: when a process_next has marked its item and the notifier then
\* fails (the webhook answers an error or raises), the item is processed
\* afterwards and the aggregate keeps the 1 and the amount that
\* mark_processed added
C21_NotifierFailureKeepsLedger ==
    [][(ret' # ret /\ ret'.op = "process_next" /\ ret'.case = "processed"
            /\ ret'.notifier \in {"rejected", "raised"})
        => LET i == ret'.arg IN
             /\ ~items[i].processed
             /\ items'[i].processed
             /\ agg'.count = agg.count + 1
             /\ agg'.amount = agg.amount + items[i].amount
             /\ ret'.ok]_vars

C21_Witness ==
    /\ ret.op = "process_next"
    /\ ret.case = "processed"
    /\ ret.notifier = "raised"
    /\ items[ret.arg].processed
    /\ items[ret.arg].amount = 2
    /\ agg = [count |-> 2, amount |-> 0]

\* C22: a stats call leaves a field of the aggregate as it is when the
\* recorded value of that field is above the actual value over the processed
\* rows that carry no reset marker; total_processed is not lowered when only
\* total_amount is below its actual value
C22_StatsLeavesHigherField ==
    [][(ret' # ret /\ ret'.op = "stats")
        => LET actual == ActualProcessed(items) IN
             /\ agg.count > actual.count => agg'.count = agg.count
             /\ agg.amount > actual.amount => agg'.amount = agg.amount]_vars

\* C23: a committed reset appends its marker to exactly the items that carry
\* none and leaves the timestamp of every other item as it is, and no other
\* step writes a timestamp; so an item never carries two markers, and the
\* one it carries is that of the first reset committed after its insertion
C23_OneMarkerPerItem ==
    [][/\ \A i \in DOMAIN items' : Len(items'[i].timestamp) <= 1
       /\ \A i \in DOMAIN items' \ DOMAIN items : items'[i].timestamp = <<>>
       /\ \A i \in DOMAIN items :
            IF Len(resetLog') = Len(resetLog) + 1 /\ ~HasResetMarker(items[i])
            THEN items'[i].timestamp = <<resetLog'[Len(resetLog')].at>>
            ELSE items'[i].timestamp = items[i].timestamp]_vars

\* item 1 carries the marker of the first reset and item 2, inserted after
\* it, that of the second
C23_Witness ==
    /\ Len(resetLog) = 2
    /\ Len(items) = 2
    /\ items[1].timestamp = <<resetLog[1].at>>
    /\ items[2].timestamp = <<resetLog[2].at>>
    /\ resetLog[1].at # resetLog[2].at

\* C24: right after a reset has committed, every item has processed = true
\* and carries a reset marker, get_next_item finds no row, get_queue_stats
\* reports total_in_queue 0 and the aggregate row is (0, 0)
C24_AfterReset ==
    [][Len(resetLog') = Len(resetLog) + 1
        => /\ Len(items') = Len(items)
           /\ \A i \in DOMAIN items' :
                items'[i].processed /\ HasResetMarker(items'[i])
           /\ NextItemCandidates(items') = {}
           /\ get_queue_stats(Db(items', agg')).out.total_in_queue = 0
           /\ agg' = ZeroCS]_vars

\* a reset has just archived a processed item and a pending one
C24_Witness ==
    /\ ret.op = "reset"
    /\ ret.ok
    /\ Len(items) = 2
    /\ hist[1].marks = 1
    /\ hist[2].marks = 0
    /\ \A i \in DOMAIN items : items[i].processed
    /\ items[1].timestamp = items[2].timestamp
    /\ agg = ZeroCS

\* C25: a call in which no invoked provider returned the path of a real
\* file fails, does not attempt playback and leaves the statistics as they
\* were, also when one provider returned a path at which no file exists and
\* a later one raised or was skipped
C25_NoArtifactNoSideEffect ==
    [][(call' # call /\ call'.preferred # NoProvider
            /\ \A k \in DOMAIN call'.invoked :
                   call'.outs[call'.invoked[k]] # "file")
        => /\ ~call'.result
           /\ ~call'.played
           /\ ttsStats' = ttsStats]_vars

\* C26: a provider constructed without the credentials it requires is not
\* enabled, and generate_speech is invoked only on providers that are
\* enabled, never on one that is disabled or was constructed without
\* credentials
C26_NoCredentialsNotInvoked ==
    /\ \A p \in CredentialProviders :
         providers[p] = provider_init(p, TRUE, FALSE)
            => ~provider_enabled(providers[p])
    /\ \A k \in DOMAIN call.invoked :
         /\ provider_enabled(providers[call.invoked[k]])
         /\ call.invoked[k] \in CredentialProviders
              => providers[call.invoked[k]]
                    # provider_init(call.invoked[k], TRUE, FALSE)

\* the place of a provider in the configured fallback order
FallbackPlace(p) == CHOOSE k \in DOMAIN fallback_order : fallback_order[k] = p

\* the place of a provider among the candidates of the last call
ChainPlace(p) == CHOOSE k \in DOMAIN CallChain : CallChain[k] = p

\* C27: the candidates of a call are the resolved provider followed by the
\* other providers in the configured fallback order, each once, and the
\* providers invoked are invoked in the order of that list, none twice
C27_CandidateOrder ==
    call.preferred # NoProvider =>
        /\ CallChain[1] = call.preferred
        /\ Len(CallChain) = Cardinality(ProviderNames)
        /\ {CallChain[k] : k \in 2..Len(CallChain)}
              = ProviderNames \ {call.preferred}
        /\ \A j, k \in 2..Len(CallChain) :
              j < k => FallbackPlace(CallChain[j]) < FallbackPlace(CallChain[k])
        /\ \A j, k \in DOMAIN call.invoked :
              j < k => ChainPlace(call.invoked[j]) < ChainPlace(call.invoked[k])

\* the vip provider raised, edge_tts returned nothing and gtts, the last of
\* the list, returned a file
C27_Witness ==
    /\ call.preferred = "elevenlabs"
    /\ call.invoked = <<"elevenlabs", "edge_tts", "gtts">>
    /\ call.outs["elevenlabs"] = "raise"
    /\ call.used_provider = "gtts"

\* the candidates after place k that the loop would invoke
EnabledAfter(k) ==
    {j \in DOMAIN CallChain :
        j > k /\ provider_enabled(providers[CallChain[j]])}

\* C28: when generate_speech of a candidate raises, the next enabled
\* candidate of the list is invoked, and the call returns a value: the
\* playback's when a later candidate returns a file, failure when none does
C28_RaiseTriesNext ==
    \A k \in DOMAIN call.invoked :
        call.outs[call.invoked[k]] = "raise" =>
            LET rest == EnabledAfter(ChainPlace(call.invoked[k])) IN
              /\ rest # {} =>
                    /\ k + 1 \in DOMAIN call.invoked
                    /\ \A j \in rest :
                          ChainPlace(call.invoked[k + 1]) <= j
              /\ call.result \in BOOLEAN
              /\ (\E j \in rest : call.outs[CallChain[j]] = "file")
                    => call.result = call.deviceOk

\* the default provider raised and gtts, tried after it, was played
C28_Witness ==
    /\ call.preferred = "edge_tts"
    /\ call.invoked = <<"edge_tts", "gtts">>
    /\ call.outs["edge_tts"] = "raise"
    /\ call.outs["gtts"] = "file"
    /\ call.result

\* C29: the latency history never holds more than 100 entries, and a call
\* that records a latency appends it at the end, dropping the oldest entry
\* when the history was full
C29_RollingLatencies ==
    /\ [](Len(generation_times) <= 100)
    /\ [][ttsStats'.total_generated = ttsStats.total_generated + 1
            => \E x \in Latencies :
                 generation_times' =
                    IF Len(generation_times) = 100
                    THEN Tail(generation_times) \o <<x>>
                    ELSE generation_times \o <<x>>]_vars

\* three equal latencies were recorded on a history of 99 alternating
\* ones: the two oldest entries were dropped
C29_Witness ==
    /\ Len(generation_times) = 100
    /\ ttsStats.total_generated = 102
    /\ generation_times[1] # generation_times[2]
    /\ generation_times[98] = generation_times[99]
    /\ generation_times[99] = generation_times[100]

\* C30: a step that changes the number of items is an insertion of one
\* item: the new item has the id after the last one, is unprocessed and
\* carries no reset marker, every item that existed is as it was, and the
\* aggregate row is as it was
C30_AddInsertsOne ==
    [][Len(items') # Len(items)
        => /\ Len(items') = Len(items) + 1
           /\ ~items'[Len(items')].processed
           /\ ~HasResetMarker(items'[Len(items')])
           /\ \A i \in DOMAIN items : items'[i] = items[i]
           /\ agg' = agg]_vars

\* a second item was just added next to a processed one, and the stats
\* read of its request has not run yet
C30_Witness ==
    /\ Len(items) = 2
    /\ items[1].processed
    /\ ~items[2].processed
    /\ agg = [count |-> 1, amount |-> 2]
    /\ \E t \in Threads : pc[t] = "st_agg" /\ lock = NoThread


\* a username with the blanks at its two ends removed
RECURSIVE LStrip(_)
LStrip(s) == IF s # <<>> /\ Head(s) = " " THEN LStrip(Tail(s)) ELSE s

RECURSIVE RStrip(_)
RStrip(s) ==
    IF s # <<>> /\ s[Len(s)] = " " THEN RStrip(SubSeq(s, 1, Len(s) - 1))
    ELSE s

Strip(s) == RStrip(LStrip(s))

\* C31: every stored item has a username that is non-empty after trimming
\* (an absent, empty or blank username is replaced by Anonymous or rejected)
C31_UsernameNonEmpty ==
    \A i \in 1..Len(items) : Strip(items[i].username) # <<>>

\* C32: the spoken text is the combined username/amount/message text unchanged
\* when its length is at most the configured maximum; otherwise it is the
\* first max_length characters of it followed by the truncation marker
C32_SpokenText ==
    [][ret'.op = "speak" =>
         LET a == ret'.arg
             combined == CombinedText(a.username, a.amount, a.text)
             spoken == ret'.message
         IN IF Len(combined) <= a.max_length
            THEN spoken = combined
            ELSE /\ Len(spoken) = a.max_length + Len(TruncationMarker)
                 /\ \A k \in 1..a.max_length : spoken[k] = combined[k]
                 /\ \A k \in 1..Len(TruncationMarker) :
                       spoken[a.max_length + k] = TruncationMarker[k]
      ]_vars

\* a text exactly as long as the maximum went out whole, and a longer one
\* went out cut
C32_AtLimit ==
    /\ ret.op = "speak"
    /\ ret.case = "whole"
    /\ Len(ret.message) = ret.arg.max_length
    /\ ret.arg.text # <<>>

C32_Cut ==
    /\ ret.op = "speak"
    /\ ret.case = "truncated"
    /\ ret.arg.max_length > 0
    /\ Len(CombinedText(ret.arg.username, ret.arg.amount, ret.arg.text))
         = ret.arg.max_length + 1

\* C33: when reset() has committed while a process_next was in flight, the
\* mark that ends the process_next does not add the archived item to the
\* aggregate
C33_ArchivedNotCounted ==
    [][\A t \in Threads :
         (/\ pc[t] = "mark"
          /\ pc'[t] # "mark"
          /\ HasResetMarker(items[loc[t].item])) => agg' = agg
      ]_vars

\* C34: the auto-repair write of stats() is never based on a stale scan: after
\* a repair UPDATE that changed the aggregate, the aggregate equals the count
\* and the amount of the processed rows without a marker, also when a reset
\* or a mark committed between the reads and the UPDATE
C34_RepairNotStale ==
    [][\A t \in Threads :
         (/\ pc[t] = "st_write"
          /\ pc'[t] # "st_write"
          /\ agg' # agg) => agg' = ActualProcessed(items')
      ]_vars

\* C35: mark_processed is idempotent per item: a call on an item that is
\* already processed (by an earlier mark or by a reset) leaves the totals
\* unchanged
C35_MarkIdempotent ==
    [][(/\ ret'.op = "mark_processed"
        /\ ret'.arg \in DOMAIN items
        /\ items[ret'.arg].processed) => agg' = agg
      ]_vars

\* C36: for every successful reset, items_archived and total_amount_archived
\* of the returned summary equal the item count and the amount that
\* reset_history() reports for that reset's marker (nothing when the reset
\* tagged no item); stated for resets in a second of their own, so that no
\* other reset shares the group
C36_SummaryMatchesHistory ==
    [][Len(resetLog') = Len(resetLog) + 1 =>
         LET at == resetLog'[Len(resetLog')].at
             info == ResetInfo(Db(items, agg), at)
             h == get_reset_history(items')
             own == {k \in 1..Len(h) : h[k].reset_time = ResetTimeKey(at)}
         IN (\A k \in 1..Len(resetLog) :
                ResetTimeKey(resetLog[k].at) # ResetTimeKey(at)) =>
              IF own = {}
              THEN /\ info.items_archived = 0
                   /\ info.total_amount_archived = 0
              ELSE \A k \in own :
                     /\ h[k].items_archived = info.items_archived
                     /\ h[k].total_amount = info.total_amount_archived
      ]_vars

\* the sum of the counters of a usage map over the keys S
RECURSIVE UsageSum(_, _)
UsageSum(usage, S) ==
    IF S = {} THEN 0
    ELSE LET p == CHOOSE q \in S : TRUE
         IN usage[p] + UsageSum(usage, S \ {p})

\* the keys of the usage map: the names counted at least once
UsageKeys == {p \in DOMAIN ttsStats.provider_usage :
                 ttsStats.provider_usage[p] > 0}

C37_TotalIsSum ==
    ttsStats.total_generated
        = UsageSum(ttsStats.provider_usage, DOMAIN ttsStats.provider_usage)

\* C37: total_generated equals the sum of the per-provider usage counters,
\* and every key of the usage map is a configured provider (one that returned
\* a real artifact), never the absent/none provider
C37_UsageKeysAreProviders ==
    /\ C37_TotalIsSum
    /\ \A p \in UsageKeys :
         /\ p # NoProvider
         /\ p \in ProviderNames
         /\ providers[p] # "absent"

\* every added item is eventually marked processed
C38_EventuallyProcessed ==
    \A i \in 1..MaxItems :
       (Len(items) >= i) ~> (Len(items) >= i /\ items[i].processed)

\* a mark takes the oldest pending item: every item added before it is
\* processed already
C38_InInsertionOrder ==
    [][\A i \in DOMAIN items :
         (~items[i].processed /\ items'[i].processed) =>
            \A j \in 1..(i - 1) : items[j].processed
      ]_vars

\* C38: under repeated process_next triggers in which synthesis, playback and
\* the mark succeed and without a reset, every added item is eventually
\* marked processed, and the items are marked in insertion order
C38_AllProcessedInOrder ==
    /\ C38_EventuallyProcessed
    /\ C38_InInsertionOrder

====
